---- MODULE Spec2Model ----
(***************************************************************************)
(* LinearDiscriminant and DeepLDA of mlcvs/lda.py as a state machine.      *)
(*                                                                         *)
(* Numbers.  torch tensors hold floats; the model computes with exact      *)
(* values.  A rational is <<n, d>> with d > 0 in lowest terms.  A tensor   *)
(* entry ("real") is  c * sqrt(r)  with c, r rational and r > 0, or NaN    *)
(* (0/0).  Square roots enter only through torch.cholesky and the norm of  *)
(* an eigenvector, and are carried symbolically.  The feature batches of   *)
(* the model have uncorrelated features (every scatter matrix is           *)
(* diagonal), so every inner product has at most one non-zero term or      *)
(* terms of one radicand, and all of LDA() is computed exactly.            *)
(***************************************************************************)
EXTENDS Integers, Sequences, FiniteSets, TLC

VARIABLES
    cls,        \* the class of the object: "LinearDiscriminant" or "DeepLDA"
    model,      \* the object: its fields
    pc,         \* "idle", or "train" while DeepLDA.train is inside its loop
    frame,      \* the locals of the current (or last) call of train
    call,       \* the last call made on the object and its arguments
    ret,        \* what that call returned
    exc,        \* the exception it raised, None when it returned
    log,        \* the epochs print_log was called for, in this call of train
    es_calls    \* the calls train made to the early-stopping object

vars == <<cls, model, pc, frame, call, ret, exc, log, es_calls>>

\* ------------------------------------------------------------ rationals
Abs(x) == IF x < 0 THEN -x ELSE x

RECURSIVE GCD(_, _)
GCD(a, b) == IF b = 0 THEN a ELSE GCD(b, a % b)

Q(n, d) ==
    LET g == GCD(Abs(n), Abs(d))
        s == IF d < 0 THEN -1 ELSE 1
    IN  <<(s * n) \div g, (s * d) \div g>>

Q0 == <<0, 1>>
Q1 == <<1, 1>>
QInt(k) == <<k, 1>>
QNeg(a) == <<-a[1], a[2]>>
QAdd(a, b) ==
    LET g == GCD(a[2], b[2])
    IN  Q(a[1] * (b[2] \div g) + b[1] * (a[2] \div g), (a[2] \div g) * b[2])
QSub(a, b) == QAdd(a, QNeg(b))
QMul(a, b) ==
    LET g1 == GCD(Abs(a[1]), b[2])
        g2 == GCD(Abs(b[1]), a[2])
    IN  <<(a[1] \div g1) * (b[1] \div g2), (a[2] \div g2) * (b[2] \div g1)>>
QInv(a) == IF a[1] < 0 THEN <<-a[2], -a[1]>> ELSE <<a[2], a[1]>>
QSign(a) == IF a[1] > 0 THEN 1 ELSE IF a[1] < 0 THEN -1 ELSE 0
QFloor(a) == a[1] \div a[2]
\* a < b; signs and integer parts decide first, to keep the products small
QLess(a, b) ==
    IF QSign(a) # QSign(b) THEN QSign(a) < QSign(b)
    ELSE IF QFloor(a) # QFloor(b) THEN QFloor(a) < QFloor(b)
    ELSE QSign(QSub(a, b)) < 0

\* ---------------------------------------------------------------- reals
NaN == [nan |-> TRUE, c |-> Q0, r |-> Q1]
Real(c, r) == IF c[1] = 0 THEN [nan |-> FALSE, c |-> Q0, r |-> Q1]
                          ELSE [nan |-> FALSE, c |-> c, r |-> r]
RQ(q) == Real(q, Q1)
RInt(k) == RQ(QInt(k))
R0 == RInt(0)
R1 == RInt(1)
IsZero(x) == ~x.nan /\ x.c[1] = 0

RNeg(x) == IF x.nan THEN NaN ELSE Real(QNeg(x.c), x.r)
\* a + b, for terms of one radicand (or a zero term)
RAdd(a, b) ==
    IF a.nan \/ b.nan THEN NaN
    ELSE IF IsZero(a) THEN b
    ELSE IF IsZero(b) THEN a
    ELSE IF a.r = b.r THEN Real(QAdd(a.c, b.c), a.r)
    ELSE CHOOSE z \in {} : TRUE
RSub(a, b) == RAdd(a, RNeg(b))
RMul(a, b) ==
    IF a.nan \/ b.nan THEN NaN
    ELSE IF IsZero(a) \/ IsZero(b) THEN R0
    ELSE IF a.r = b.r THEN Real(QMul(a.c, QMul(b.c, a.r)), Q1)
    ELSE Real(QMul(a.c, b.c), QMul(a.r, b.r))
\* x / y as torch divides floats: 0/0 is nan
RInv(x) == IF x.nan THEN NaN ELSE Real(QInv(QMul(x.c, x.r)), x.r)
RDiv(a, b) ==
    IF a.nan \/ b.nan THEN NaN
    ELSE IF IsZero(b) THEN NaN
    ELSE RMul(a, RInv(b))
\* x^2, a rational
RSquare(x) == IF x.nan THEN NaN ELSE RQ(QMul(x.c, QMul(x.c, x.r)))
\* sqrt of a non-negative rational-valued real
RSqrt(x) == IF x.nan THEN NaN ELSE IF IsZero(x) THEN R0 ELSE Real(Q1, x.c)
RSign(x) == IF x.nan THEN NaN ELSE RInt(QSign(x.c))
RLess(a, b) == QLess(a.c, b.c)

\* F(1) + ... + F(n)
RECURSIVE RSum(_, _)
RSum(F(_), n) == IF n = 0 THEN R0 ELSE RAdd(RSum(F, n - 1), F(n))

\* <<F(1), ..., F(n)>> and the n x m tensor of F(i, j)
RECURSIVE Tab(_, _)
Tab(F(_), n) == IF n = 0 THEN <<>> ELSE Append(Tab(F, n - 1), F(n))
Mat(F(_, _), n, m) == LET Row(i) == LET E(j) == F(i, j) IN Tab(E, m) IN Tab(Row, n)

\* -------------------------------------------------------------- tensors
\* A 2-D tensor is a sequence of rows; a 1-D tensor a sequence of reals.
Range(f) == {f[i] : i \in DOMAIN f}
Min(a, b) == IF a < b THEN a ELSE b
Rows(M) == Len(M)
Cols(M) == IF Len(M) = 0 THEN 0 ELSE Len(M[1])
new_zeros(n, m) == LET E(i, j) == R0 IN Mat(E, n, m)
new_ones(n) == LET E(i) == R1 IN Tab(E, n)
diag(v) == LET E(i, j) == IF i = j THEN v[i] ELSE R0 IN Mat(E, Len(v), Len(v))
t(M) == LET E(j, i) == M[i][j] IN Mat(E, Cols(M), Rows(M))
matmul(A, B) ==
    LET E(i, j) == LET P(k) == RMul(A[i][k], B[k][j]) IN RSum(P, Cols(A))
    IN  Mat(E, Rows(A), Cols(B))
MAdd(A, B) == LET E(i, j) == RAdd(A[i][j], B[i][j]) IN Mat(E, Rows(A), Cols(A))
MSub(A, B) == LET E(i, j) == RSub(A[i][j], B[i][j]) IN Mat(E, Rows(A), Cols(A))
MScale(A, s) == LET E(i, j) == RMul(A[i][j], s) IN Mat(E, Rows(A), Cols(A))
MDiv(A, s) == LET E(i, j) == RDiv(A[i][j], s) IN Mat(E, Rows(A), Cols(A))
\* torch.mean(H, 0, True): the row of column means
mean0(H, d) ==
    LET E(j) == LET C(i) == H[i][j] IN RDiv(RSum(C, Rows(H)), RInt(Rows(H)))
    IN  Tab(E, d)
\* H - mean (the mean row broadcast over the rows)
Centered(H, d) ==
    LET m == mean0(H, d)
        E(i, j) == RSub(H[i][j], m[j])
    IN  Mat(E, Rows(H), d)
HasNaN(M) == \E i \in 1..Rows(M) : \E j \in 1..Cols(M) : M[i][j].nan
IsDiagonal(M) == \A i \in 1..Rows(M) : \A j \in 1..Cols(M) : i # j => IsZero(M[i][j])

\* torch.unique(label): the distinct labels, ascending
RECURSIVE SortedSeq(_)
SortedSeq(S) ==
    IF S = {} THEN <<>>
    ELSE LET m == CHOOSE v \in S : \A w \in S : v <= w
         IN  <<m>> \o SortedSeq(S \ {m})
unique(label) == SortedSeq(Range(label))
\* H[torch.nonzero(label == c).view(-1)]: the rows of class c, in order
RECURSIVE RowsOfClass(_, _, _, _)
RowsOfClass(H, label, c, n) ==
    IF n = 0 THEN <<>>
    ELSE IF label[n] = c THEN Append(RowsOfClass(H, label, c, n - 1), H[n])
    ELSE RowsOfClass(H, label, c, n - 1)

\* torch.cholesky(A, upper=False): entry (i, j) of the lower factor
\* (Cholesky-Banachiewicz); a pivot that is nan or not positive makes the
\* factorization fail.
RECURSIVE CholEntry(_, _, _)
CholSum(A, i, j) ==
    LET P(k) == RMul(CholEntry(A, i, k), CholEntry(A, j, k)) IN RSum(P, j - 1)
CholEntry(A, i, j) ==
    IF j > i THEN R0
    ELSE IF i = j THEN RSqrt(RSub(A[i][i], CholSum(A, i, i)))
    ELSE RDiv(RSub(A[i][j], CholSum(A, i, j)), CholEntry(A, j, j))
CholPivot(A, i) == RSub(A[i][i], CholSum(A, i, i))
cholesky_fails(A) ==
    \/ HasNaN(A)
    \/ \E i \in 1..Rows(A) : CholPivot(A, i).nan \/ QSign(CholPivot(A, i).c) <= 0
cholesky(A) == LET E(i, j) == CholEntry(A, i, j) IN Mat(E, Rows(A), Rows(A))

\* torch.inverse of a triangular matrix, by substitution
RECURSIVE InvLowerEntry(_, _, _)
InvLowerEntry(L, i, j) ==
    IF i < j THEN R0
    ELSE IF i = j THEN RInv(L[i][i])
    ELSE LET P(k) == RMul(L[i][j + k - 1], InvLowerEntry(L, j + k - 1, j))
         IN  RNeg(RDiv(RSum(P, i - j), L[i][i]))
InvLower(L) == LET E(i, j) == InvLowerEntry(L, i, j) IN Mat(E, Rows(L), Rows(L))
IsLower(M) == \A i \in 1..Rows(M) : \A j \in 1..Cols(M) : j > i => IsZero(M[i][j])
inverse(M) == IF IsLower(M) THEN InvLower(M) ELSE t(InvLower(t(M)))

\* torch.sort(v, 0, descending): the permutation `indices` (ties keep order)
RECURSIVE SortDesc(_, _)
SortDesc(v, left) ==
    IF left = {} THEN <<>>
    ELSE LET m == CHOOSE a \in left : \A b \in left :
                      \/ RLess(v[b], v[a])
                      \/ (~RLess(v[a], v[b]) /\ a <= b)
         IN  <<m>> \o SortDesc(v, left \ {m})
Reverse(s) == LET E(i) == s[Len(s) + 1 - i] IN Tab(E, Len(s))

\* torch.symeig(S, eigenvectors=True) of a diagonal matrix: the diagonal in
\* ascending order, and as eigenvectors the matching unit vectors, each
\* with the sign the library happens to give it (sg[k] in {-1, 1}).
symeig(S, sg) ==
    LET d    == Rows(S)
        D(i) == S[i][i]
        dg   == Tab(D, d)
        asc  == Reverse(SortDesc(dg, 1..d))
        Val(k) == dg[asc[k]]
        Vec(i, k) == IF i = asc[k] THEN RInt(sg[k]) ELSE R0
    IN  IF ~IsDiagonal(S) THEN CHOOSE e \in {} : TRUE
        ELSE [eigvals |-> Tab(Val, d), eigvecs |-> Mat(Vec, d, d)]

None == "None"
\* v is None, for v of any type (TLC compares values of one type only)
IsNone(v) == ToString(v) = ToString(None)

\* ------------------------------------------------ LinearDiscriminant.LDA
\* The loop over the classes that accumulates S_w (lines 93-102).
RECURSIVE S_w_loop(_, _, _, _, _)
S_w_loop(H, label, categ, n, d) ==
    IF n = 0 THEN new_zeros(d, d)
    ELSE LET S_w     == S_w_loop(H, label, categ, n - 1, d)
             H_i     == RowsOfClass(H, label, categ[n], Len(H))
             H_i_bar == Centered(H_i, d)
             N_i     == Rows(H_i)
         IN  IF N_i = 0 THEN S_w
             ELSE MAdd(S_w, MDiv(matmul(t(H_i_bar), H_i_bar),
                                 RInt((N_i - 1) * Len(categ))))

\* the loop that normalizes each column (lines 130-132)
normalize(eigvecs) ==
    LET Nrm(i) == LET P(k) == RSquare(eigvecs[k][i]) IN RSqrt(RSum(P, Rows(eigvecs)))
        norm   == Tab(Nrm, Cols(eigvecs))
        E(k, i) == RDiv(eigvecs[k][i], norm[i])
    IN  Mat(E, Rows(eigvecs), Cols(eigvecs))

\* eigvecs.mul_(torch.sign(eigvecs[0,:]).unsqueeze(0).expand_as(eigvecs))
first_component_positive(eigvecs) ==
    LET E(k, i) == RMul(eigvecs[k][i], RSign(eigvecs[1][i]))
    IN  Mat(E, Rows(eigvecs), Cols(eigvecs))

\* eigvals[:n_categ-1] and eigvecs[:,:n_categ-1]: how many are kept
keep(n_categ, d) == IF n_categ - 1 < 0 THEN 0 ELSE Min(n_categ - 1, d)

\* Lines 77-138 of LDA: everything it computes from H, label and
\* self.sw_reg, one operator per step; each step hands the values computed
\* so far to the next.  sg is the sign torch.symeig gives each eigenvector.

\* lines 136-138: the first n_categ-1 eigenvalues and eigenvectors
LDA_keep(d, n_categ, eigvals, eigvecs, S_b, S_w) ==
    LET Cut(i) == SubSeq(eigvecs[i], 1, keep(n_categ, d))
    IN  [d |-> d, raised |-> FALSE,
         eigvals |-> SubSeq(eigvals, 1, keep(n_categ, d)),
         eigvecs |-> Tab(Cut, d), S_b |-> S_b, S_w |-> S_w]

\* lines 124-134: eigenpairs in the order of indices, mapped back with
\* L_ti, normalized, first component made positive
LDA_sorted(d, n_categ, eig, indices, L_ti, S_b, S_w) ==
    LET Val(k)    == eig.eigvals[indices[k]]
        Vec(i, k) == eig.eigvecs[i][indices[k]]
    IN  LDA_keep(d, n_categ, Tab(Val, d),
                 first_component_positive(normalize(matmul(L_ti, Mat(Vec, d, d)))),
                 S_b, S_w)

\* lines 118-123: S_new, its eigenpairs, and their descending order
LDA_eig(d, n_categ, eig, L_ti, S_b, S_w) ==
    LDA_sorted(d, n_categ, eig, SortDesc(eig.eigvals, 1..d), L_ti, S_b, S_w)
LDA_S_new(d, n_categ, L_i, L_ti, S_b, S_w, sg) ==
    LDA_eig(d, n_categ, symeig(matmul(matmul(L_i, S_b), L_ti), sg), L_ti, S_b, S_w)

\* lines 112-117: the Cholesky factor of S_w and the inverses
LDA_L(d, n_categ, L, S_b, S_w, sg) ==
    LDA_S_new(d, n_categ, inverse(L), inverse(t(L)), S_b, S_w, sg)
LDA_cholesky(d, n_categ, S_b, S_w, sg) ==
    IF cholesky_fails(S_w)
    THEN [d |-> d, raised |-> TRUE, eigvals |-> None, eigvecs |-> None,
          S_b |-> None, S_w |-> None]
    ELSE LDA_L(d, n_categ, cholesky(S_w), S_b, S_w, sg)

\* lines 104-107: S_b = S_t - S_w, and the regularization of S_w
LDA_S_b(d, n_categ, S_t, S_w, sw_reg, sg) ==
    LDA_cholesky(d, n_categ, MSub(S_t, S_w),
                 MAdd(S_w, MScale(diag(new_ones(d)), RQ(sw_reg))), sg)

\* lines 87-102: S_t from the centered H, and S_w from the loop
LDA_S_t(N, d, H, H_bar, label, categ, n_categ, sw_reg, sg) ==
    LDA_S_b(d, n_categ, MDiv(matmul(t(H_bar), H_bar), RInt(N - 1)),
            S_w_loop(H, label, categ, n_categ, d), sw_reg, sg)

\* lines 77-85: sizes, classes, mean
LDA_categ(N, d, H, label, categ, sw_reg, sg) ==
    LDA_S_t(N, d, H, Centered(H, d), label, categ, Len(categ), sw_reg, sg)
LDA_solve(H, label, sw_reg, sg) ==
    LDA_categ(Rows(H), Cols(H), H, label, unique(label), sw_reg, sg)

\* ------------------------------------------------------ the model's data
\* Datasets (X, y), features in rows.  A: two classes split along feature
\* 2.  B: two classes split along feature 1.  T: three classes.  S: one
\* class, one feature.  F: one feature, a class with a single sample.
Data ==
    [A |-> [X |-> <<<<1, 0>>, <<-1, 0>>, <<1, 2>>, <<-1, 2>>>>, y |-> <<0, 0, 1, 1>>],
     B |-> [X |-> <<<<0, 1>>, <<0, -1>>, <<2, 1>>, <<2, -1>>>>, y |-> <<0, 0, 1, 1>>],
     T |-> [X |-> <<<<0, -1>>, <<0, 1>>, <<2, -1>>, <<2, 1>>, <<1, 2>>, <<1, 4>>>>,
            y |-> <<0, 0, 1, 1, 2, 2>>],
     S |-> [X |-> <<<<1>>, <<3>>>>, y |-> <<0, 0>>],
     F |-> [X |-> <<<<1>>, <<3>>, <<5>>>>, y |-> <<0, 0, 1>>]]
DataNames == DOMAIN Data
\* the datasets train, train_epoch and evaluate_dataset are given, the
\* validation datasets of train, and the batches loss_function is given
TrainNames == {"T"}
ValidNames == {"B", None}
LossNames == {"T", "S"}
\* torch.tensor(X, dtype=self.dtype_)
tensor(X) == LET E(i, j) == RInt(X[i][j]) IN Mat(E, Len(X), Len(X[1]))
NumClasses(n) == Cardinality(Range(Data[n].y))
Dim(n) == Len(Data[n].X[1])

MaxTotalEpochs == 2     \* epochs one object is trained for, over all calls
MaxEpochs == 2          \* nepochs of one call of train
MaxLogEvery == 2        \* log_every of one call of train

\* the values of sw_reg set_regularization is called with: the default of
\* DeepLDA.set_regularization (0.02) and 0.1
SwRegArgs == {Q(2, 100), Q(1, 10)}
\* and the values the constructors set: 1e-6 and 0.05
SwRegAll == SwRegArgs \cup {Q(1, 1000000), Q(5, 100)}
\* the arguments of DeepLDA.set_regularization: the default sw_reg, and
\* lorentzian_reg left out or 0
DeepSwRegArgs == {Q(2, 100)}
LorentzianArgs == {None, Q0}
NameLists == {<<"phi", "psi">>}
\* the sign the eigensolver gives the eigenvectors
Signs(d) == {[i \in 1..d |-> sgn] : sgn \in {-1, 1}}

\* NeuralNetworkCV.forward_nn, a feature map that depends on the network's
\* parameters.  The parameters are the number p of optimizer steps taken;
\* the map stretches the first feature by 1 + p.
forward_nn(self, X) ==
    LET E(i, j) == IF j = 1 THEN RMul(X[i][j], RInt(1 + self.parameters))
                   ELSE X[i][j]
    IN  Mat(E, Rows(X), Cols(X))

\* LDA_solve, tabulated over the batches the model presents it with
SolveInputs ==
    LET Hs == {<<tensor(Data[n].X), Data[n].y>> : n \in DataNames}
              \cup {<<forward_nn([parameters |-> p], tensor(Data[n].X)), Data[n].y>> :
                        n \in TrainNames \cup (ValidNames \ {None}),
                        p \in 0..MaxTotalEpochs}
    IN  UNION {{[H |-> hy[1], label |-> hy[2], sw_reg |-> r, sg |-> g] :
                    r \in SwRegAll, g \in Signs(Cols(hy[1]))} : hy \in Hs}
SolveTable == [in \in SolveInputs |-> LDA_solve(in.H, in.label, in.sw_reg, in.sg)]
Solve(H, label, sw_reg, sg) ==
    SolveTable[[H |-> H, label |-> label, sw_reg |-> sw_reg, sg |-> sg]]

\* ---------------------------------------------------- LinearDiscriminant
\* Every method is an operator from the object (and the arguments) to
\* [self |-> the object after the call, exc |-> the exception raised or
\* None, ret |-> the value returned].
Result(self, e, r) == [self |-> self, exc |-> e, ret |-> r]

LinearDiscriminant_init ==
    [evals_ |-> None, evecs_ |-> None, S_b_ |-> None, S_w_ |-> None, d_ |-> None,
     features_names_ |-> None, sw_reg |-> Q(1, 1000000)]

\* self1 is the object after line 83 (self.d_ = d), s what lines 77-138
\* compute
LDA(self, H, label, save_params, sg) ==
    LET Solved(self1, s) ==
            IF s.raised THEN Result(self1, "RuntimeError", None)
            ELSE Result(IF save_params
                        THEN [self1 EXCEPT !.evals_ = s.eigvals, !.evecs_ = s.eigvecs,
                                           !.S_b_ = s.S_b, !.S_w_ = s.S_w]
                        ELSE self1,
                        None, s.eigvals)
    IN  Solved([self EXCEPT !.d_ = Cols(H)], Solve(H, label, self.sw_reg, sg))

fit(self, X, y, sg) ==
    LET Fitted(r) == Result(r.self, r.exc, None)
    IN  Fitted(LDA(self, tensor(X), y, TRUE, sg))

transform(self, X) ==
    IF IsNone(self.evecs_) THEN Result(self, "TypeError", None)
    ELSE IF Cols(X) # Rows(self.evecs_) THEN Result(self, "RuntimeError", None)
    ELSE Result(self, None, matmul(X, self.evecs_))

LinearDiscriminant_set_regularization(self, sw_reg) ==
    Result([self EXCEPT !.sw_reg = Q(5, 100)], None, None)

set_features_names(self, names) ==
    Result([self EXCEPT !.features_names_ = names], None, None)

\* str(np.round(v, 6)) of a rational v: rounded half to even at the sixth
\* decimal, printed with the digits it needs and at least one
RECURSIVE Pad(_, _)
Pad(str, n) == IF Len(str) >= n THEN str ELSE Pad("0" \o str, n)
RECURSIVE Strip(_)
Strip(str) ==
    IF Len(str) > 1 /\ SubSeq(str, Len(str), Len(str)) = "0"
    THEN Strip(SubSeq(str, 1, Len(str) - 1)) ELSE str
Decimals == 6
RECURSIVE LongDiv(_, _, _, _)
LongDiv(acc, rem, d, k) ==
    IF k = 0 THEN <<acc, rem>>
    ELSE LongDiv(acc * 10 + (rem * 10) \div d, (rem * 10) % d, d, k - 1)
Str6(v) ==
    LET n   == Abs(v.c[1])
        d   == v.c[2]
        ld  == LongDiv(0, n % d, d, Decimals)
        Micro == 10 ^ Decimals
        up  == 2 * ld[2] > d \/ (2 * ld[2] = d /\ ld[1] % 2 = 1)
        m   == (n \div d) * Micro + ld[1] + (IF up THEN 1 ELSE 0)
    IN  IF v.nan THEN "nan"
        ELSE (IF v.c[1] < 0 THEN "-" ELSE "") \o ToString(m \div Micro) \o "."
             \o Strip(Pad(ToString(m % Micro), Decimals))

RECURSIVE plumed_names(_, _)
plumed_names(self, n) ==
    IF n = 0 THEN ""
    ELSE plumed_names(self, n - 1)
         \o (IF IsNone(self.features_names_) THEN "x" \o ToString(n - 1)
             ELSE self.features_names_[n])
         \o ","
RECURSIVE plumed_coefficients(_, _, _)
plumed_coefficients(self, i, n) ==
    IF n = 0 THEN ""
    ELSE plumed_coefficients(self, i, n - 1) \o Str6(self.evecs_[n][i]) \o ","
DropLast(str) == SubSeq(str, 1, Len(str) - 1)
RECURSIVE plumed_loop(_, _)
plumed_loop(self, n) ==
    IF n = 0 THEN ""
    ELSE LET out0 == plumed_loop(self, n - 1)
             out1 == out0 \o (IF Len(self.evals_) = 1 THEN "lda: COMBINE ARG="
                              ELSE "lda" \o ToString(n) \o ": COMBINE ARG=")
             out2 == DropLast(out1 \o plumed_names(self, self.d_))
             out3 == out2 \o " COEFFICIENTS="
             out4 == DropLast(out3 \o plumed_coefficients(self, n, self.d_))
         IN  out4 \o " PERIODIC=NO"
plumed_input(self) ==
    IF IsNone(self.evals_) THEN Result(self, "TypeError", None)
    ELSE IF /\ Len(self.evals_) > 0
            /\ \/ ~IsNone(self.features_names_) /\ Len(self.features_names_) < self.d_
               \/ Rows(self.evecs_) < self.d_
    THEN Result(self, "IndexError", None)
    ELSE Result(self, None, plumed_loop(self, Len(self.evals_)))

\* ---------------------------------------------------------------- DeepLDA
\* The fields of NeuralNetworkCV the class uses: parameters (the number of
\* optimizer steps that produced them), opt_ and earlystopping_.
NeuralNetworkCV_init ==
    [parameters |-> 0, opt_ |-> None, earlystopping_ |-> None]

DeepLDA_init ==
    [evals_ |-> None, evecs_ |-> None, S_b_ |-> None, S_w_ |-> None, d_ |-> None,
     features_names_ |-> None,
     parameters |-> NeuralNetworkCV_init.parameters, opt_ |-> NeuralNetworkCV_init.opt_,
     earlystopping_ |-> NeuralNetworkCV_init.earlystopping_,
     lorentzian_reg |-> Q0, sw_reg |-> Q(5, 100),
     epochs |-> 0, loss_train |-> <<>>, loss_valid |-> <<>>]

\* The early-stopping object: called with (loss, parameters) it decides
\* whether to stop and whether the parameters are the best so far; the
\* first parameters it sees are.
EarlyStopping_init == [early_stop |-> FALSE, best_model |-> None]
EarlyStopping_call(es, loss, parameters, stop, improve) ==
    [early_stop |-> stop,
     best_model |-> IF improve \/ IsNone(es.best_model) THEN parameters
                    ELSE es.best_model]

regularization_lorentzian(self, H) ==
    LET Sq(i, j)     == RSquare(H[i][j])
        Row(i)       == LET P(j) == Sq(i, j) IN RSum(P, Cols(H))
        reg_loss     == RDiv(RSum(Row, Rows(H)), RInt(Rows(H)))
    IN  RDiv(RNeg(RQ(self.lorentzian_reg)),
             RAdd(R1, RSquare(RSub(reg_loss, R1))))

\* lines 415-418, r the result of the call of LDA: the loss, with the
\* Lorentzian term when lorentzian_reg > 0
loss_of(self, H, obj, loss) ==
    IF QLess(Q0, self.lorentzian_reg)
    THEN Result(obj, None, RAdd(loss, regularization_lorentzian(self, H)))
    ELSE Result(obj, None, loss)
loss_regularized(self, H, r) ==
    IF ~IsNone(r.exc) THEN r
    ELSE IF Len(r.ret) = 0 THEN Result(r.self, "IndexError", None)
    ELSE loss_of(self, H, r.self, RNeg(r.ret[1]))

loss_function(self, H, y, save_params, sg) ==
    loss_regularized(self, H, LDA(self, H, y, save_params, sg))

\* lines 435-438 for one batch, l the result of loss_function:
\* loss.backward() and self.opt_.step()
train_step(l) ==
    IF ~IsNone(l.exc) THEN Result(l.self, l.exc, None)
    ELSE IF IsNone(l.self.opt_) THEN Result(l.self, "AttributeError", None)
    ELSE Result([l.self EXCEPT !.parameters = @ + 1], None, None)
\* lines 429-433 for one batch (X, y), before the result of the batches
\* before it
train_batch(before, X, y, sg) ==
    IF ~IsNone(before.exc) THEN before
    ELSE train_step(loss_function(before.self, forward_nn(before.self, X), y, FALSE, sg))

\* for data in loader: the batches 1..n of the loader, in turn
RECURSIVE train_batches(_, _, _, _)
train_batches(self, loader, n, sg) ==
    IF n = 0 THEN Result(self, None, None)
    ELSE train_batch(train_batches(self, loader, n - 1, sg),
                     tensor(loader[n].X), loader[n].y, sg)

train_epoch(self, loader, sg) ==
    LET Epoch(r) == IF ~IsNone(r.exc) THEN r
                    ELSE Result([r.self EXCEPT !.epochs = @ + 1], None, None)
    IN  Epoch(train_batches(self, loader, Len(loader), sg))

evaluate_dataset(self, data, save_params, sg) ==
    IF IsNone(data) THEN Result(self, "TypeError", None)
    ELSE loss_function(self, forward_nn(self, tensor(data.X)), data.y, save_params, sg)

DeepLDA_set_regularization(self, sw_reg, lorentzian_reg) ==
    Result([self EXCEPT !.sw_reg = sw_reg,
                        !.lorentzian_reg = IF IsNone(lorentzian_reg)
                                           THEN QMul(QInt(2), QInv(sw_reg))
                                           ELSE lorentzian_reg],
           None, None)

\* DataLoader(train_dataset, batch_size, shuffle=True): the batches of one
\* pass; batch_size = -1 stands for len(train_data[0])
DataLoader(train_data, batch_size) ==
    IF batch_size = -1 \/ batch_size >= Len(train_data.X) THEN <<train_data>>
    ELSE CHOOSE z \in {} : TRUE

\* train up to its loop (lines 520-536).  standardize_inputs and print_info
\* belong to the base class and touch none of the fields above.
train_begin(self, train_data) ==
    IF IsNone(self.opt_) THEN [self EXCEPT !.opt_ = "default"] ELSE self

\* lines 547-549: the call of the early-stopping object
train_earlystopping(self, loss_valid, stop, improve) ==
    IF ~IsNone(self.earlystopping_)
    THEN [self EXCEPT !.earlystopping_ =
              EarlyStopping_call(@, loss_valid, self.parameters, stop, improve)]
    ELSE self

\* line 552: the condition of the log: whether evaluating it raises
\* (AttributeError), and its value
train_log_condition(self, ep, log_every) ==
    IF (ep + 1) % log_every = 0 THEN [raises |-> FALSE, value |-> TRUE]
    ELSE IF IsNone(self.earlystopping_) THEN [raises |-> TRUE, value |-> FALSE]
    ELSE [raises |-> FALSE, value |-> self.earlystopping_.early_stop]

\* the check of a loop that never ends early
train_check_stop_skipped(self) == [self |-> self, break |-> FALSE]

\* lines 557-559: [self after the check, break |-> whether the loop ends]
train_check_stop(self) ==
    IF ~IsNone(self.earlystopping_) /\ self.earlystopping_.early_stop
    THEN [self |-> [self EXCEPT !.parameters = self.earlystopping_.best_model],
          break |-> TRUE]
    ELSE [self |-> self, break |-> FALSE]

\* One pass of the loop of train (lines 540-559), epoch ep (from 0), one
\* operator per step; each hands the object so far to the next.  The result
\* is [self, exc, logged, called, break].
train_out(obj, x, logged, called, brk) ==
    [self |-> obj, exc |-> x, logged |-> logged, called |-> called, break |-> brk]
\* lines 551-559: the log and the check, cnd and chk their outcomes
train_log(s5, cnd, chk, es_call) ==
    IF cnd.raises THEN train_out(s5, "AttributeError", FALSE, es_call, FALSE)
    ELSE train_out(chk.self, None, cnd.value, es_call, chk.break)
\* lines 547-549: s5 is the object after the call of the early-stopping
\* object, s4 the object before it
train_called(s4, s5, loss_valid, ep, log_every) ==
    train_log(s5, train_log_condition(s5, ep, log_every), train_check_stop(s5),
              IF IsNone(s4.earlystopping_) THEN <<>>
              ELSE <<[loss |-> loss_valid, parameters |-> s4.parameters,
                      early_stop |-> s5.earlystopping_.early_stop]>>)
\* lines 544-545: s4 is the object with the two losses appended
train_appended(s4, loss_valid, ep, log_every, stop, improve) ==
    train_called(s4, train_earlystopping(s4, loss_valid, stop, improve),
                 loss_valid, ep, log_every)
\* line 543: lv is the result of evaluate_dataset(valid_data)
train_valid(lt, lv, ep, log_every, stop, improve) ==
    IF ~IsNone(lv.exc) THEN train_out(lv.self, lv.exc, FALSE, <<>>, FALSE)
    ELSE train_appended([lv.self EXCEPT !.loss_train = Append(@, lt.ret),
                                        !.loss_valid = Append(@, lv.ret)],
                        lv.ret, ep, log_every, stop, improve)
\* line 542: lt is the result of evaluate_dataset(train_data, True)
train_train(lt, valid_data, ep, log_every, sg, stop, improve) ==
    IF ~IsNone(lt.exc) THEN train_out(lt.self, lt.exc, FALSE, <<>>, FALSE)
    ELSE train_valid(lt, evaluate_dataset(lt.self, valid_data, FALSE, sg),
                     ep, log_every, stop, improve)
\* line 540: e is the result of train_epoch
train_trained(e, train_data, valid_data, ep, log_every, sg, stop, improve) ==
    IF ~IsNone(e.exc) THEN train_out(e.self, e.exc, FALSE, <<>>, FALSE)
    ELSE train_train(evaluate_dataset(e.self, train_data, TRUE, sg),
                     valid_data, ep, log_every, sg, stop, improve)
train_iteration(self, loader, train_data, valid_data, ep, log_every, sg, stop, improve) ==
    train_trained(train_epoch(self, loader, sg),
                  train_data, valid_data, ep, log_every, sg, stop, improve)

\* ------------------------------------------------------------ the calls
CallRec(op, data, save_params, sw_reg, lorentzian_reg) ==
    [op |-> op, data |-> data, save_params |-> save_params, sw_reg |-> sw_reg,
     lorentzian_reg |-> lorentzian_reg]

InitOf(class) ==
    /\ cls = class
    /\ model = IF cls = "DeepLDA" THEN DeepLDA_init ELSE LinearDiscriminant_init
    /\ pc = "idle"
    /\ frame = None
    /\ call = CallRec("__init__", None, None, None, None)
    /\ ret = None
    /\ exc = None
    /\ log = <<>>
    /\ es_calls = <<>>

\* a call that is over when the step is: r is the method's result
Finish(r, c) ==
    /\ model' = r.self
    /\ exc' = r.exc
    /\ ret' = r.ret
    /\ call' = c
    /\ pc' = "idle"
    /\ frame' = None
    /\ log' = <<>>
    /\ es_calls' = <<>>
    /\ UNCHANGED cls

call_fit ==
    /\ pc = "idle"
    /\ cls = "LinearDiscriminant"
    /\ \E n \in DataNames : \E sg \in Signs(Dim(n)) :
          Finish(fit(model, Data[n].X, Data[n].y, sg),
                 CallRec("fit", n, TRUE, None, None))

call_LDA ==
    /\ pc = "idle"
    /\ cls = "LinearDiscriminant"
    /\ \E n \in DataNames : \E save_params \in BOOLEAN : \E sg \in Signs(Dim(n)) :
          Finish(LDA(model, tensor(Data[n].X), Data[n].y, save_params, sg),
                 CallRec("LDA", n, save_params, None, None))

call_transform ==
    /\ pc = "idle"
    /\ cls = "LinearDiscriminant"
    /\ \E n \in DataNames :
          Finish(transform(model, tensor(Data[n].X)),
                 CallRec("transform", n, None, None, None))

call_LinearDiscriminant_set_regularization ==
    /\ pc = "idle"
    /\ cls = "LinearDiscriminant"
    /\ \E sw_reg \in SwRegArgs :
          Finish(LinearDiscriminant_set_regularization(model, sw_reg),
                 CallRec("set_regularization", None, None, sw_reg, None))

call_set_features_names ==
    /\ pc = "idle"
    /\ cls = "LinearDiscriminant"
    /\ \E names \in NameLists :
          Finish(set_features_names(model, names),
                 CallRec("set_features_names", None, None, None, None))

call_plumed_input ==
    /\ pc = "idle"
    /\ cls = "LinearDiscriminant"
    /\ Finish(plumed_input(model), CallRec("plumed_input", None, None, None, None))

call_loss_function ==
    /\ pc = "idle"
    /\ cls = "DeepLDA"
    /\ \E n \in LossNames : \E save_params \in BOOLEAN : \E sg \in Signs(Dim(n)) :
          Finish(loss_function(model, tensor(Data[n].X), Data[n].y, save_params, sg),
                 CallRec("loss_function", n, save_params, None, None))

call_evaluate_dataset ==
    /\ pc = "idle"
    /\ cls = "DeepLDA"
    /\ \E n \in TrainNames : \E save_params \in BOOLEAN : \E sg \in Signs(Dim(n)) :
          Finish(evaluate_dataset(model, Data[n], save_params, sg),
                 CallRec("evaluate_dataset", n, save_params, None, None))

call_train_epoch ==
    /\ pc = "idle"
    /\ cls = "DeepLDA"
    /\ model.epochs < MaxTotalEpochs
    /\ \E n \in TrainNames : \E sg \in Signs(Dim(n)) :
          Finish(train_epoch(model, DataLoader(Data[n], -1), sg),
                 CallRec("train_epoch", n, FALSE, None, None))

call_DeepLDA_set_regularization ==
    /\ pc = "idle"
    /\ cls = "DeepLDA"
    /\ \E sw_reg \in DeepSwRegArgs : \E lorentzian_reg \in LorentzianArgs :
          Finish(DeepLDA_set_regularization(model, sw_reg, lorentzian_reg),
                 CallRec("set_regularization", None, None, sw_reg, lorentzian_reg))

\* NeuralNetworkCV.set_earlystopping: a new early-stopping object
call_set_earlystopping ==
    /\ pc = "idle"
    /\ cls = "DeepLDA"
    /\ Finish(Result([model EXCEPT !.earlystopping_ = EarlyStopping_init], None, None),
              CallRec("set_earlystopping", None, None, None, None))

\* train is called and reaches its loop
call_train ==
    /\ pc = "idle"
    /\ cls = "DeepLDA"
    /\ \E n \in TrainNames, v \in ValidNames,
          nepochs \in 1..MaxEpochs, log_every \in 1..MaxLogEvery :
          /\ model.epochs + nepochs <= MaxTotalEpochs
          /\ model' = train_begin(model, Data[n])
          /\ frame' = [train_data |-> n, valid_data |-> v, batch_size |-> -1,
                       nepochs |-> nepochs, log_every |-> log_every, ep |-> 0,
                       status |-> "running", break |-> FALSE,
                       parameters0 |-> model.parameters, epochs0 |-> model.epochs]
          /\ call' = CallRec("train", n, None, None, None)
    /\ pc' = "train"
    /\ ret' = None
    /\ exc' = None
    /\ log' = <<>>
    /\ es_calls' = <<>>
    /\ UNCHANGED cls

\* one pass of the loop of train; the call returns after the last pass or
\* on break, and ends when a pass raises
train_loop ==
    /\ pc = "train"
    /\ \E sg \in Signs(Dim(frame.train_data)), stop \in BOOLEAN, improve \in BOOLEAN :
          LET Pass(it, status) ==
                  /\ model' = it.self
                  /\ exc' = it.exc
                  /\ log' = IF it.logged THEN Append(log, frame.ep + 1) ELSE log
                  /\ es_calls' = es_calls \o it.called
                  /\ frame' = [frame EXCEPT !.ep = IF IsNone(it.exc) THEN @ + 1 ELSE @,
                                            !.status = status, !.break = it.break]
                  /\ pc' = IF status = "running" THEN "train" ELSE "idle"
              Iterated(it) ==
                  Pass(it, IF ~IsNone(it.exc) THEN "raised"
                           ELSE IF it.break \/ frame.ep + 1 = frame.nepochs
                           THEN "returned"
                           ELSE "running")
          IN  Iterated(train_iteration(model,
                                       DataLoader(Data[frame.train_data], frame.batch_size),
                                       Data[frame.train_data],
                                       IF IsNone(frame.valid_data) THEN None
                                       ELSE Data[frame.valid_data],
                                       frame.ep, frame.log_every, sg, stop, improve))
    /\ ret' = None
    /\ UNCHANGED <<cls, call>>

\* A LinearDiscriminant and the calls made on it
Init == InitOf("LinearDiscriminant")
Next ==
    \/ call_fit
    \/ call_LDA
    \/ call_transform
    \/ call_LinearDiscriminant_set_regularization
    \/ call_set_features_names
    \/ call_plumed_input
Spec == Init /\ [][Next]_vars

\* A DeepLDA and the calls made on it
InitDeep == InitOf("DeepLDA")
NextDeep ==
    \/ call_loss_function
    \/ call_evaluate_dataset
    \/ call_train_epoch
    \/ call_DeepLDA_set_regularization
    \/ call_set_earlystopping
    \/ call_train
    \/ train_loop
SpecDeep == InitDeep /\ [][NextDeep]_vars

\* A DeepLDA that is configured and trained
NextTrain ==
    \/ call_DeepLDA_set_regularization
    \/ call_set_earlystopping
    \/ call_train
    \/ train_loop
SpecTrain == InitDeep /\ [][NextTrain]_vars

\* ------------------------------------------------------------ properties
\* the stored fields of the projector, as one comparable value
Stored(self) == ToString(<<self.evals_, self.evecs_, self.S_b_, self.S_w_, self.d_>>)
SolveOps == {"fit", "LDA", "loss_function", "evaluate_dataset", "train_epoch"}
\* the state as one comparable value: a step changes it or stutters
state == ToString(vars)

\* C1: a solve requested with save_params = false leaves evals_, evecs_,
\* S_b_, S_w_ and d_ as they were before the call.
C1_TransientSolveKeepsStored ==
    [][(call'.op \in SolveOps /\ ToString(call'.save_params) = "FALSE")
          => Stored(model') = Stored(model)]_state

\* C2: a solve that raises leaves evals_, evecs_, S_b_, S_w_ and d_ as they
\* were before the call.
C2_RaisingSolveKeepsStored ==
    [][(call'.op \in SolveOps /\ pc' = "idle" /\ exc' # None)
          => Stored(model') = Stored(model)]_state

\* C5: a solve on labels with fewer than 2 classes fails with the
\* invalid-class-count error, and no empty solution is stored.
C5_SingleClassRejected ==
    (/\ call.op \in {"fit", "loss_function"}
     /\ call.data \in DataNames
     /\ NumClasses(call.data) < 2)
    => /\ exc = "InvalidClassCountError"
       /\ IsNone(model.evals_) \/ Len(model.evals_) > 0

\* C8: after set_regularization(sw_reg) the model's sw_reg is the value
\* passed.
C8_SetRegularizationStoresArgument ==
    call.op = "set_regularization" => model.sw_reg = call.sw_reg

\* C9: every stored eigenvector is a non-zero vector of unit L2 norm whose
\* first coordinate is not negative.
C9_EigenvectorsCanonical ==
    (~IsNone(model.evecs_) /\ ~IsNone(model.evals_)) =>
        \A k \in 1..Len(model.evals_) :
            LET Sq(i) == RSquare(model.evecs_[i][k])
            IN  /\ RSum(Sq, Rows(model.evecs_)) = R1
                /\ ~RLess(model.evecs_[1][k], R0)

\* the strings of seq with sep between them
RECURSIVE Join(_, _)
Join(seq, sep) ==
    IF Len(seq) = 0 THEN ""
    ELSE IF Len(seq) = 1 THEN seq[1]
    ELSE Join(SubSeq(seq, 1, Len(seq) - 1), sep) \o sep \o seq[Len(seq)]

\* C7: plumed_input returns one line per stored component, the lines
\* separated by a newline, each '<label>: COMBINE ARG=<names>
\* COEFFICIENTS=<coefficients> PERIODIC=NO' with label 'lda' for one
\* component and 'lda<i>' for several, and names x0.. unless names are set.
C7_OneLinePerComponent ==
    (call.op = "plumed_input" /\ exc = None) =>
        LET K       == Len(model.evals_)
            name(j) == IF IsNone(model.features_names_) THEN "x" \o ToString(j - 1)
                       ELSE model.features_names_[j]
            Line(i) == LET coefficient(j) == Str6(model.evecs_[j][i])
                       IN  (IF K = 1 THEN "lda" ELSE "lda" \o ToString(i))
                           \o ": COMBINE ARG=" \o Join(Tab(name, model.d_), ",")
                           \o " COEFFICIENTS=" \o Join(Tab(coefficient, model.d_), ",")
                           \o " PERIODIC=NO"
        IN  ret = Join(Tab(Line, K), "\n")

\* C4: loss_function returns minus the first eigenvalue for 2 classes and
\* minus eigenvalue[C-2] (from 0) for C > 2 classes, plus the Lorentzian
\* term when lorentzian_reg > 0.
C4_LossEigenvalue ==
    (call.op = "loss_function" /\ exc = None) =>
        LET n    == call.data
            H    == tensor(Data[n].X)
            C    == NumClasses(n)
            eig  == CHOOSE e \in {Solve(H, Data[n].y, model.sw_reg, sg).eigvals :
                                      sg \in Signs(Dim(n))} : TRUE
            loss == RNeg(IF C = 2 THEN eig[1] ELSE eig[C - 1])
        IN  ret = IF QLess(Q0, model.lorentzian_reg)
                  THEN RAdd(loss, regularization_lorentzian(model, H))
                  ELSE loss

\* the batches of one epoch of the running call of train
FrameLoader == DataLoader(Data[frame.train_data], frame.batch_size)

\* C3: in train with an early-stopping object, the object is called once
\* after every epoch with that epoch's validation loss and the parameters
\* of that moment; no epoch runs after the first call that reports
\* early_stop; train returns after min(nepochs, first epoch with early_stop)
\* epochs, with best_model as its parameters after an early stop.
C3_EarlyStoppingControl ==
    (call.op = "train" /\ ~IsNone(frame) /\ ~IsNone(model.earlystopping_)) =>
        LET n     == Len(es_calls)
            first == Len(model.loss_valid) - frame.ep
        IN  /\ n = frame.ep
            /\ \A i \in 1..n :
                  /\ es_calls[i].loss = model.loss_valid[first + i]
                  /\ es_calls[i].parameters = frame.parameters0 + i * Len(FrameLoader)
                  /\ i < n => ~es_calls[i].early_stop
            /\ frame.status = "running" =>
                  /\ n < frame.nepochs
                  /\ n > 0 => ~es_calls[n].early_stop
            /\ frame.status = "returned" =>
                  /\ model.epochs - frame.epochs0 = n
                  /\ n = frame.nepochs \/ es_calls[n].early_stop
                  /\ frame.break = es_calls[n].early_stop
                  /\ frame.break => model.parameters = model.earlystopping_.best_model

\* C3: train has returned on an early stop before its last epoch
C3_StoppedEarly ==
    /\ call.op = "train"
    /\ ~IsNone(frame)
    /\ frame.status = "returned"
    /\ frame.break
    /\ frame.ep < frame.nepochs
    /\ Len(es_calls) = frame.ep
    /\ es_calls[frame.ep].early_stop

\* C6: in train the log is written in exactly the epochs with
\* (epoch+1) % log_every = 0 or an early stop, and its condition never
\* fails, with or without an early-stopping object.
C6_LogCondition ==
    (call.op = "train" /\ ~IsNone(frame)) =>
        /\ exc # "AttributeError"
        /\ \A e \in 1..frame.ep :
              (e \in Range(log)) <=>
                  \/ e % frame.log_every = 0
                  \/ ~IsNone(model.earlystopping_) /\ es_calls[e].early_stop

\* C10: when train returns, the stored evals_ and evecs_ are those solved on
\* the training set under the parameters the model then has.
C10_StoredSolutionOfLiveParameters ==
    (call.op = "train" /\ ~IsNone(frame) /\ frame.status = "returned") =>
        \E sg \in Signs(Dim(frame.train_data)) :
            LET n == frame.train_data
                s == Solve(forward_nn(model, tensor(Data[n].X)), Data[n].y,
                           model.sw_reg, sg)
            IN  /\ model.evals_ = s.eigvals
                /\ model.evecs_ = s.eigvecs
====
